---- MODULE Spec2Model ----
(***************************************************************************)
(* A model of hikari-miru's Modal (src/miru/modal.py), of the navigation   *)
(* items (src/miru/ext/nav/items.py) and of Item (src/miru/abc/item.py).   *)
(*                                                                         *)
(* Four specifications share the module:                                   *)
(*   SpecIds  - several modals, their title / custom_id properties and the *)
(*              predicate with which each listener filters the shared      *)
(*              event stream;                                              *)
(*   Spec     - the lifecycle of one modal: start, listener tasks, the     *)
(*              handling task of a submission, stop, wait, timeout;        *)
(*   SpecNav  - a navigator's page cursor under the built-in buttons;      *)
(*   SpecItems - one Item, and one Modal with its identifiers and items.   *)
(* A specification leaves the variables of the others untouched.           *)
(***************************************************************************)
EXTENDS Integers, Sequences, FiniteSets, TLC

VARIABLES
    \* ---- SpecIds: one entry per modal object
    exists,        \* exists[m]: Modal.__init__ returned for object m
    _title,        \* Modal._title
    _custom_id,    \* Modal._custom_id
    wire,          \* the custom_id given to create_modal_response by send(), or None
    listening,     \* a listener of m is suspended in event_manager.wait_for
    consumed,      \* what the listeners took at the last dispatch, with what held then
    raised,        \* the exception of the last property assignment / constructor, or None
    \* ---- Spec: the lifecycle of one modal
    autodefer,       \* ItemHandler.autodefer (constructor argument)
    _timeout,        \* ItemHandler._timeout: NoTimeout (None) or a number of seconds
    _stopped,        \* the flag of the asyncio.Event ItemHandler._stopped
    _listener_task,  \* ItemHandler._listener_task: 0 (None) or the task start() made last
    lst,             \* lst[i]: where the i-th _listen_for_events task is
    hnd,             \* hnd[i]: where the _handle_callback task made by listener i is
    _issued_response,\* context.interaction._issued_response of the context of listener i
    _values,         \* Modal._values: 0 (None) or the values of the context of listener i
    _ctx,            \* Modal._ctx: 0 (None) or the context of listener i
    waiter,          \* waiter[w]: where caller w of wait() is
    responded,       \* ghost: initial responses the callback issued on context i
    deferred,        \* ghost: defers _handle_callback issued on context i
    on_error_calls,  \* ghost: calls of on_error per context passed (0: context None)
    released,        \* ghost: how often _stopped went from clear to set
    stop_calls,      \* ghost: calls of stop(), counted up to MaxStopCalls
    callback_calls,  \* ghost: invocations of Modal.callback, counted up to MaxStarts + 1
    \* ---- SpecNav: a navigator
    len_pages,       \* len(self.view.pages)
    current_page,    \* NavigatorView.current_page
    jump_open,       \* IndicatorButton callbacks suspended in modal.wait()
    sent_page,       \* the page send_page rendered last, or NoPage
    disabled,        \* disabled[b]: Item.disabled of the built-in button b
    label,           \* IndicatorButton.label as <<page shown, pages>>
    nav_raised,      \* the exception the last navigation callback ended with, or None
    nav_status,      \* the navigator is "created", "running" or "stopped"
    message,         \* NavigatorView.message is set
    _inter,          \* NavigatorView._inter is set
    ephemeral,       \* NavigatorView.ephemeral
    stop_editing,    \* a StopButton callback is suspended in its edit
    nav_last,        \* ghost: the navigation callback that ended last
    nav_children,    \* NavigatorView.children, each item by its name, in order
    select_disabled, \* Item.disabled of the NavSelect among the children
    debug,           \* __debug__: assert statements are executed (no python -O)
    \* ---- SpecItems: one item, and the item list of a modal
    _row,            \* Item._row
    _rendered_row,   \* Item._rendered_row
    item_custom_id,  \* Item._custom_id
    children,        \* the items the modal holds, each by its class
    item_last        \* ghost: the operation on the item or the list that ended last

idVars == <<exists, _title, _custom_id, wire, listening, consumed, raised>>

navVars == <<len_pages, current_page, jump_open, sent_page, disabled, label, nav_raised,
             nav_status, message, _inter, ephemeral, stop_editing, nav_last,
             nav_children, select_disabled, debug>>

\* the children of the navigator and the interpreter's mode: no callback
\* changes them
navKids == <<nav_children, debug>>

lifeVars == <<autodefer, _timeout, _stopped, _listener_task, lst, hnd, _issued_response,
              _values, _ctx, waiter, responded, deferred, on_error_calls, released,
              stop_calls, callback_calls>>

itemVars == <<_row, _rendered_row, item_custom_id, children, item_last>>

notIds == <<lifeVars, navVars, itemVars>>

notLife == <<idVars, navVars, itemVars>>

notNav == <<idVars, lifeVars, itemVars>>

notItems == <<idVars, lifeVars, navVars>>

None == "None"

(***************************************************************************)
(* Bounds and program constants                                            *)
(***************************************************************************)
MaxLen == 100

\* the two modal objects that share the event stream
Modals == {1, 2}

\* strings the application passes as titles and identifiers
Titles == {"Jump", "Quiz"}
CustomIds == {"a", "b"}
\* what os.urandom(16).hex() may return (two of the 2^128 values)
GenIds == {"g1", "g2"}
\* a string of 101 characters
LongStr == "xxxxxxxxxxxxxxxxxxxxxxxxxxxxxxxxxxxxxxxxxxxxxxxxxxxxxxxxxxxxxxxxxxxxxxxxxxxxxxxxxxxxxxxxxxxxxxxxxxxxx"

(***************************************************************************)
(* The properties of class Modal, built as the class body builds them.     *)
(* property(fget) makes a property with a getter only; p.setter(f) returns *)
(* a copy of p whose setter is f, and the class attribute named after the  *)
(* decorated function is bound to that copy.                               *)
(***************************************************************************)
property(fget) == [fget |-> fget, fset |-> None]

setter(p, f) == [p EXCEPT !.fset = f]

\* @property def title: the attribute `title` after line 86-91
title_getter_only == property("title")

\* @title.setter def title: the attribute `title` after line 93-101
title_property == setter(title_getter_only, "title")

\* @property def custom_id: the attribute `custom_id` after line 103-108
custom_id_getter_only == property("custom_id")

\* @title.setter def custom_id: the attribute `custom_id` after line 110-118;
\* the decorator is title.setter, so the copy is made of the title property
custom_id_property == setter(title_property, "custom_id")

\* the body of a getter function, by name
fget_body(name, m) ==
    CASE name = "title" -> _title[m]
      [] name = "custom_id" -> _custom_id[m]

\* reading modal.title and modal.custom_id
title(m) == fget_body(title_property.fget, m)

custom_id(m) == fget_body(custom_id_property.fget, m)

\* Modal.__init__(title, custom_id=cid): cid None draws a generated identifier
Construct(m, t, cid, gen) ==
    /\ ~exists[m]
    /\ LET id == IF cid = None THEN gen ELSE cid IN
       IF Len(t) > MaxLen \/ Len(id) > MaxLen
       THEN /\ raised' = "ValueError"
            /\ UNCHANGED <<exists, _title, _custom_id>>
       ELSE /\ raised' = None
            /\ exists' = [exists EXCEPT ![m] = TRUE]
            /\ _title' = [_title EXCEPT ![m] = t]
            /\ _custom_id' = [_custom_id EXCEPT ![m] = id]
    /\ UNCHANGED <<wire, listening, consumed>>
    /\ UNCHANGED notIds

\* the body of a setter function, by name (value is a str in every call modelled)
fset_body(name, m, value) ==
    IF Len(value) > MaxLen
    THEN /\ raised' = "ValueError"
         /\ UNCHANGED <<_title, _custom_id>>
    ELSE /\ raised' = None
         /\ CASE name = "title" ->
                   /\ _title' = [_title EXCEPT ![m] = value]
                   /\ UNCHANGED _custom_id
              [] name = "custom_id" ->
                   /\ _custom_id' = [_custom_id EXCEPT ![m] = value]
                   /\ UNCHANGED _title

\* modal.title = value
SetTitle(m, value) ==
    /\ exists[m]
    /\ fset_body(title_property.fset, m, value)
    /\ UNCHANGED <<exists, wire, listening, consumed>>
    /\ UNCHANGED notIds

\* modal.custom_id = value
SetCustomId(m, value) ==
    /\ exists[m]
    /\ fset_body(custom_id_property.fset, m, value)
    /\ UNCHANGED <<exists, wire, listening, consumed>>
    /\ UNCHANGED notIds

\* Modal.send: create_modal_response(self.title, self.custom_id, ...), then start()
SendModal(m) ==
    /\ exists[m]
    /\ wire' = [wire EXCEPT ![m] = custom_id(m)]
    /\ listening' = [listening EXCEPT ![m] = TRUE]
    /\ raised' = None
    /\ UNCHANGED <<exists, _title, _custom_id, consumed>>
    /\ UNCHANGED notIds

\* the predicate of _listen_for_events, evaluated when the event is dispatched
predicate(m, e) == e.kind = "modal" /\ e.custom_id = custom_id(m)

\* what the listener of k records when wait_for hands it event e
Taken(k, e) ==
    [by |-> k, kind |-> e.kind, cid |-> e.custom_id, origin |-> e.origin,
     own |-> _custom_id[k],
     others |-> {_custom_id[j] : j \in {i \in Modals : listening[i]} \ {k}}]

\* the event manager dispatches e: every suspended wait_for whose predicate
\* accepts e returns it, and that listener leaves wait_for
Dispatch(e) ==
    /\ LET takers == {k \in Modals : listening[k] /\ predicate(k, e)} IN
       /\ consumed' = {Taken(k, e) : k \in takers}
       /\ listening' = [k \in Modals |-> listening[k] /\ k \notin takers]
    /\ raised' = None
    /\ UNCHANGED <<exists, _title, _custom_id, wire>>
    /\ UNCHANGED notIds

\* the user submits the dialog that send() of modal m opened: the platform
\* answers with a modal interaction carrying the identifier sent for it
SubmitDialog(m) ==
    /\ wire[m] # None
    /\ Dispatch([kind |-> "modal", custom_id |-> wire[m], origin |-> m])

\* a button press whose component carries identifier cid
ComponentPress(cid) ==
    Dispatch([kind |-> "component", custom_id |-> cid, origin |-> 0])

(***************************************************************************)
(* The lifecycle of one modal.                                             *)
(*                                                                         *)
(* asyncio runs one task at a time and switches only at an await, so an    *)
(* action is the code a task runs between two suspensions.  A listener is  *)
(* "waiting" from the moment start() made it: a task that has not run yet  *)
(* sees neither the events dispatched nor the stop() called before its     *)
(* first step otherwise than a task suspended in wait_for does.            *)
(***************************************************************************)
MaxStarts == 2
MaxWaiters == 2
MaxStopCalls == 2
DefaultTimeout == 300
\* stands for timeout=None: wait_for never expires
NoTimeout == -1

Listeners == 1..MaxStarts
Waiters == 1..MaxWaiters

\* a listener that can still act: suspended in wait_for, or resumable with
\* the event or with the TimeoutError wait_for has for it
Active == {"waiting", "event", "timeout"}

\* a handling task that can still act
Busy == {"created", "callback", "defer"}

\* Task.cancel() on the task in _listener_task
cancel(l) ==
    IF _listener_task # 0 /\ l[_listener_task] \in Active
    THEN [l EXCEPT ![_listener_task] = "cancelled"]
    ELSE l

\* asyncio.Event.set(): the futures of all suspended wait() callers resolve
set_event ==
    /\ _stopped' = TRUE
    /\ waiter' = [w \in Waiters |-> IF waiter[w] = "waiting" THEN "woken" ELSE waiter[w]]
    /\ released' = released + 1

\* ItemHandler.stop(), called in a step that leaves the listeners as l
stop(l) ==
    /\ stop_calls' = IF stop_calls < MaxStopCalls THEN stop_calls + 1 ELSE stop_calls
    /\ IF _stopped
       THEN /\ lst' = l
            /\ UNCHANGED <<_stopped, waiter, released>>
       ELSE /\ lst' = cancel(l)
            /\ set_event

no_stop(l) ==
    /\ lst' = l
    /\ UNCHANGED <<_stopped, waiter, released, stop_calls>>

\* Modal.start(): asyncio.create_task(self._listen_for_events())
start ==
    \E i \in Listeners :
        /\ lst[i] = "unborn"
        /\ \A j \in Listeners : j < i => lst[j] # "unborn"
        /\ _listener_task' = i
        /\ no_stop([lst EXCEPT ![i] = "waiting"])
        /\ UNCHANGED <<autodefer, _timeout, callback_calls, hnd,
                       _issued_response, _values, _ctx, responded, deferred,
                       on_error_calls>>

\* Modal.start() called by the application
Start == start /\ UNCHANGED notLife

\* Modal.send(): create_modal_response, then self.start()
Send == start /\ UNCHANGED notLife

\* the application calls stop()
AppStop ==
    /\ stop(lst)
    /\ UNCHANGED <<autodefer, _timeout, callback_calls, _listener_task, hnd,
                   _issued_response, _values, _ctx, responded, deferred, on_error_calls>>
    /\ UNCHANGED notLife

\* Modal.wait() when it blocks even though the event is already set
wait_always_blocks(w) ==
    /\ waiter[w] = "idle"
    /\ waiter' = [waiter EXCEPT ![w] = "waiting"]
    /\ UNCHANGED <<autodefer, _timeout, callback_calls, _stopped,
                   _listener_task, lst, hnd, _issued_response, _values, _ctx, responded,
                   deferred, on_error_calls, released, stop_calls>>
    /\ UNCHANGED notLife

\* Modal.wait(): await self._stopped.wait(); Event.wait returns at once when set
wait(w) ==
    /\ waiter[w] = "idle"
    /\ waiter' = [waiter EXCEPT ![w] = IF _stopped THEN "returned" ELSE "waiting"]
    /\ UNCHANGED <<autodefer, _timeout, callback_calls, _stopped,
                   _listener_task, lst, hnd, _issued_response, _values, _ctx, responded,
                   deferred, on_error_calls, released, stop_calls>>
    /\ UNCHANGED notLife

\* a caller of wait() whose future resolved is resumed
WaitReturn(w) ==
    /\ waiter[w] = "woken"
    /\ waiter' = [waiter EXCEPT ![w] = "returned"]
    /\ UNCHANGED <<autodefer, _timeout, callback_calls, _stopped,
                   _listener_task, lst, hnd, _issued_response, _values, _ctx, responded,
                   deferred, on_error_calls, released, stop_calls>>
    /\ UNCHANGED notLife

\* the event manager dispatches a modal interaction the predicate accepts:
\* every wait_for of this modal that is still pending returns it (with none
\* pending nobody takes the event and nothing changes)
Submit ==
    /\ \E i \in Listeners : lst[i] = "waiting"
    /\ lst' = [i \in Listeners |-> IF lst[i] = "waiting" THEN "event" ELSE lst[i]]
    /\ UNCHANGED <<autodefer, _timeout, callback_calls, _stopped, _listener_task, hnd,
                   _issued_response, _values, _ctx, waiter, responded, deferred,
                   on_error_calls, released, stop_calls>>
    /\ UNCHANGED notLife

\* wait_for(timeout=self._timeout) expires for listener i; the listeners wait
\* for the same time, so the one that began to wait first expires first
Timeout(i) ==
    /\ _timeout # NoTimeout
    /\ lst[i] = "waiting"
    /\ \A j \in Listeners : j < i => lst[j] # "waiting"
    /\ lst' = [lst EXCEPT ![i] = "timeout"]
    /\ UNCHANGED <<autodefer, _timeout, callback_calls, _stopped,
                   _listener_task, hnd, _issued_response, _values, _ctx, waiter,
                   responded, deferred, on_error_calls, released, stop_calls>>
    /\ UNCHANGED notLife

\* ItemHandler._handle_timeout() run by listener i: timeout handling, then stop()
_handle_timeout(i) ==
    /\ stop([lst EXCEPT ![i] = "timedout"])
    /\ UNCHANGED <<autodefer, _timeout, callback_calls, _listener_task, hnd,
                   _issued_response, _values, _ctx, responded, deferred, on_error_calls>>

\* _process_interactions when the handling task is made whatever modal_check
\* returned
_process_interactions_unchecked(i, passed) ==
    /\ hnd' = [hnd EXCEPT ![i] = "created"]
    /\ no_stop([lst EXCEPT ![i] = IF passed THEN "done" ELSE "rejected"])
    /\ UNCHANGED <<autodefer, _timeout, callback_calls, _listener_task,
                   _issued_response, _values, _ctx, responded, deferred, on_error_calls>>

\* Modal._process_interactions(event) run by listener i; passed is what
\* modal_check returned.  The event is a modal interaction (the predicate
\* saw to it), so the isinstance test holds.
_process_interactions(i, passed) ==
    /\ IF passed
       THEN /\ hnd' = [hnd EXCEPT ![i] = "created"]
            /\ no_stop([lst EXCEPT ![i] = "done"])
       ELSE /\ UNCHANGED hnd
            /\ no_stop([lst EXCEPT ![i] = "rejected"])
    /\ UNCHANGED <<autodefer, _timeout, callback_calls, _listener_task,
                   _issued_response, _values, _ctx, responded, deferred, on_error_calls>>

\* _listen_for_events when it awaits the next event after it processed one
ListenerResume_rearms(i) ==
    /\ \/ /\ lst[i] = "timeout"
          /\ _handle_timeout(i)
       \/ /\ lst[i] = "event"
          /\ \E passed \in BOOLEAN :
                /\ hnd' = IF passed THEN [hnd EXCEPT ![i] = "created"] ELSE hnd
                /\ no_stop([lst EXCEPT ![i] = "waiting"])
          /\ UNCHANGED <<autodefer, _timeout, callback_calls, _listener_task,
                         _issued_response, _values, _ctx, responded, deferred,
                         on_error_calls>>
    /\ UNCHANGED notLife

\* Modal._listen_for_events resumed from wait_for: the except branch on
\* TimeoutError, the else branch with the event
ListenerResume(i) ==
    /\ \/ /\ lst[i] = "timeout"
          /\ _handle_timeout(i)
       \/ /\ lst[i] = "event"
          /\ \E passed \in BOOLEAN : _process_interactions(i, passed)
    /\ UNCHANGED notLife

\* _handle_callback starts: self._values = context.values, then the callback
\* runs up to its first suspension
HandleStart(h) ==
    /\ hnd[h] = "created"
    /\ _values' = h
    /\ hnd' = [hnd EXCEPT ![h] = "callback"]
    /\ callback_calls' = IF callback_calls <= MaxStarts THEN callback_calls + 1
                         ELSE callback_calls
    /\ no_stop(lst)
    /\ UNCHANGED <<autodefer, _timeout, _listener_task, _issued_response, _ctx,
                   responded, deferred, on_error_calls>>
    /\ UNCHANGED notLife

\* the callback issues the initial response on its context (respond, or
\* defer); the Context refuses a second one
CallbackRespond(h) ==
    /\ hnd[h] = "callback"
    /\ ~_issued_response[h]
    /\ _issued_response' = [_issued_response EXCEPT ![h] = TRUE]
    /\ responded' = [responded EXCEPT ![h] = @ + 1]
    /\ no_stop(lst)
    /\ UNCHANGED <<autodefer, _timeout, callback_calls, _listener_task, hnd,
                   _values, _ctx, deferred, on_error_calls>>
    /\ UNCHANGED notLife

\* the callback calls self.stop(), and stop() ends the task that called it
CallbackStop_ends_task(h) ==
    /\ hnd[h] = "callback"
    /\ stop(lst)
    /\ hnd' = [hnd EXCEPT ![h] = "cancelled"]
    /\ UNCHANGED <<autodefer, _timeout, callback_calls, _listener_task,
                   _issued_response, _values, _ctx, responded, deferred, on_error_calls>>
    /\ UNCHANGED notLife

\* the callback calls self.stop()
CallbackStop(h) ==
    /\ hnd[h] = "callback"
    /\ stop(lst)
    /\ UNCHANGED <<autodefer, _timeout, callback_calls, _listener_task, hnd,
                   _issued_response, _values, _ctx, responded, deferred, on_error_calls>>
    /\ UNCHANGED notLife

\* lines 226-230 when the test of _issued_response is left out
after_callback_always_defers(h) ==
    /\ _ctx' = h
    /\ IF autodefer
       THEN /\ hnd' = [hnd EXCEPT ![h] = "defer"]
            /\ no_stop(lst)
       ELSE /\ hnd' = [hnd EXCEPT ![h] = "done"]
            /\ stop(lst)
    /\ UNCHANGED <<autodefer, _timeout, callback_calls, _listener_task,
                   _issued_response, _values, responded, deferred, on_error_calls>>

\* lines 226-230 after callback returned: self._ctx = context; the defer is
\* awaited if no response was issued and autodefer is set, else self.stop()
after_callback(h) ==
    /\ _ctx' = h
    /\ IF ~_issued_response[h] /\ autodefer
       THEN /\ hnd' = [hnd EXCEPT ![h] = "defer"]
            /\ no_stop(lst)
       ELSE /\ hnd' = [hnd EXCEPT ![h] = "done"]
            /\ stop(lst)
    /\ UNCHANGED <<autodefer, _timeout, callback_calls, _listener_task,
                   _issued_response, _values, responded, deferred, on_error_calls>>

\* lines 229-230 after context.defer() returned: the response is issued, then
\* self.stop()
after_defer(h) ==
    /\ _issued_response' = [_issued_response EXCEPT ![h] = TRUE]
    /\ deferred' = [deferred EXCEPT ![h] = @ + 1]
    /\ hnd' = [hnd EXCEPT ![h] = "done"]
    /\ stop(lst)
    /\ UNCHANGED <<autodefer, _timeout, callback_calls, _listener_task,
                   _values, _ctx, responded, on_error_calls>>

\* lines 232-233 when the handler of the exception also stops the modal
on_exception_stops(h) ==
    /\ on_error_calls' = [on_error_calls EXCEPT ![h] = @ + 1]
    /\ hnd' = [hnd EXCEPT ![h] = "failed"]
    /\ stop(lst)
    /\ UNCHANGED <<autodefer, _timeout, callback_calls, _listener_task,
                   _issued_response, _values, _ctx, responded, deferred>>

\* lines 232-233: except Exception as error: await self.on_error(error, context);
\* on_error (lines 169-188) prints the traceback and returns
on_exception(h) ==
    /\ on_error_calls' = [on_error_calls EXCEPT ![h] = @ + 1]
    /\ hnd' = [hnd EXCEPT ![h] = "failed"]
    /\ no_stop(lst)
    /\ UNCHANGED <<autodefer, _timeout, callback_calls, _listener_task,
                   _issued_response, _values, _ctx, responded, deferred>>

\* the callback returns
CallbackReturn(h) ==
    /\ hnd[h] = "callback"
    /\ after_callback(h)
    /\ UNCHANGED notLife

\* the callback raises an Exception
CallbackRaise(h) ==
    /\ hnd[h] = "callback"
    /\ on_exception(h)
    /\ UNCHANGED notLife

\* the automatic defer returns
DeferReturn(h) ==
    /\ hnd[h] = "defer"
    /\ after_defer(h)
    /\ UNCHANGED notLife

\* the automatic defer raises an Exception (the REST call failed)
DeferRaise(h) ==
    /\ hnd[h] = "defer"
    /\ on_exception(h)
    /\ UNCHANGED notLife

\* Modal.get_response_context() (lines 213-215): RuntimeError when _ctx is
\* None, else the context
get_response_context == [raises |-> _ctx = 0, context |-> _ctx]

InitLife ==
    /\ autodefer \in BOOLEAN
    /\ _timeout \in {NoTimeout, DefaultTimeout}
    /\ _stopped = FALSE
    /\ _listener_task = 0
    /\ lst = [i \in Listeners |-> "unborn"]
    /\ hnd = [i \in Listeners |-> "none"]
    /\ _issued_response = [i \in Listeners |-> FALSE]
    /\ _values = 0
    /\ _ctx = 0
    /\ waiter = [w \in Waiters |-> "idle"]
    /\ responded = [i \in Listeners |-> 0]
    /\ deferred = [i \in Listeners |-> 0]
    /\ on_error_calls = [i \in 0..MaxStarts |-> 0]
    /\ released = 0
    /\ stop_calls = 0
    /\ callback_calls = 0

InitIds ==
    /\ exists = [m \in Modals |-> FALSE]
    /\ _title = [m \in Modals |-> None]
    /\ _custom_id = [m \in Modals |-> None]
    /\ wire = [m \in Modals |-> None]
    /\ listening = [m \in Modals |-> FALSE]
    /\ consumed = {}
    /\ raised = None

(***************************************************************************)
(* The navigator: the page cursor under the built-in navigation buttons.   *)
(***************************************************************************)
MaxPages == 4
MaxJumps == 2
NoPage == -1

\* --- text, as the sequence of its characters
Digits == <<"0", "1", "2", "3", "4", "5", "6", "7", "8", "9">>

IsDigit(c) == \E d \in 1..10 : Digits[d] = c

DigitValue(c) == (CHOOSE d \in 1..10 : Digits[d] = c) - 1

RECURSIVE DecimalOf(_)
\* the decimal digits of a natural number
DecimalOf(n) ==
    IF n < 10 THEN <<Digits[n + 1]>>
    ELSE DecimalOf(n \div 10) \o <<Digits[(n % 10) + 1]>>

\* what a user types for the number n
Typed(n) == IF n < 0 THEN <<"-">> \o DecimalOf(-n) ELSE DecimalOf(n)

RECURSIVE lstrip(_)
lstrip(t) == IF t # <<>> /\ Head(t) = " " THEN lstrip(Tail(t)) ELSE t

RECURSIVE rstrip(_)
rstrip(t) ==
    IF t # <<>> /\ t[Len(t)] = " " THEN rstrip(SubSeq(t, 1, Len(t) - 1)) ELSE t

RECURSIVE digits_value(_, _)
\* the value of a run of decimal digits, most significant first
digits_value(t, acc) ==
    IF t = <<>> THEN acc ELSE digits_value(Tail(t), 10 * acc + DigitValue(Head(t)))

\* Python's int(text): surrounding blanks are dropped, one sign is allowed,
\* then at least one digit and digits only; anything else is a ValueError
int(text) ==
    LET t == rstrip(lstrip(text))
        signed == t # <<>> /\ Head(t) \in {"-", "+"}
        body == IF signed THEN Tail(t) ELSE t
    IN  IF body = <<>> \/ \E k \in 1..Len(body) : ~IsDigit(body[k])
        THEN [ok |-> FALSE, value |-> 0]
        ELSE [ok |-> TRUE,
              value |-> IF signed /\ Head(t) = "-"
                        THEN 0 - digits_value(body, 0)
                        ELSE digits_value(body, 0)]

\* the texts a user submits in the jump modal
Texts ==
    {Typed(n) : n \in -1..(MaxPages + 1)}
        \cup {<<>>, <<"a", "b", "c">>, <<" ", "2">>, <<"1", "0">>, <<"2", "x">>}

\* the built-in buttons of the navigator
Buttons == {"first", "prev", "indicator", "next", "last", "stop"}

\* the default buttons in the order NavigatorView adds them
DefaultButtons == <<"first", "prev", "indicator", "next", "last", "stop">>

\* class NavButton(Button, NavItem) and class NavSelect(Select, NavItem): the
\* built-in buttons are NavButtons, the child "select" is a NavSelect, and
\* isinstance(child, NavButton) separates them
isinstance_NavButton(child) == child \in Buttons

\* the children lists explored: the default buttons alone, or with a
\* NavSelect before or after them
ChildLists ==
    {DefaultButtons, <<"select">> \o DefaultButtons, DefaultButtons \o <<"select">>}

HasSelect == \E i \in DOMAIN nav_children : ~isinstance_NavButton(nav_children[i])

\* the buttons the loop of StopButton.callback has disabled when its
\* assertion fails: those in front of the first child that is no NavButton
disabled_before_assert ==
    {nav_children[i] : i \in {j \in DOMAIN nav_children :
        \A k \in 1..j : isinstance_NavButton(nav_children[k])}}

\* before_page_change when Next and Last compare the cursor with len(pages)
before_page_change_off_by_one(page) ==
    [b \in Buttons |->
        CASE b = "next" -> page = len_pages
          [] b = "prev" -> page = 0
          [] b = "first" -> page = 0
          [] b = "last" -> page = len_pages
          [] b = "indicator" -> IF len_pages # 1 THEN disabled[b] ELSE TRUE
          [] OTHER -> disabled[b]]

\* before_page_change of every item, run with the cursor at page: the state
\* of the buttons afterwards (NavItem.before_page_change does nothing, which
\* is what the stop button inherits)
before_page_change(page) ==
    [b \in Buttons |->
        CASE b = "next" -> page = len_pages - 1
          [] b = "prev" -> page = 0
          [] b = "first" -> page = 0
          [] b = "last" -> page = len_pages - 1
          [] b = "indicator" -> IF len_pages # 1 THEN disabled[b] ELSE TRUE
          [] OTHER -> disabled[b]]

\* IndicatorButton.before_page_change: the label f"{current_page+1}/{len(pages)}"
indicator_label(page) == <<page + 1, len_pages>>

\* what the callback that ended last was, what was typed for it and which
\* response it issued on its context
ended(op, text, answer) == nav_last' = [op |-> op, text |-> text, answer |-> answer]

\* NavigatorView.send_page(context) with the cursor at page: before_page_change
\* on every item, then the page is rendered and sent
send_page(page) ==
    /\ disabled' = before_page_change(page)
    /\ label' = indicator_label(page)
    /\ sent_page' = page

\* NavigatorView.current_page = value, then send_page(context): the setter
\* refuses a value outside the pages with IndexOutOfRange, and the callback
\* ends there
set_page_and_send(value) ==
    IF 0 <= value /\ value < len_pages
    THEN /\ current_page' = value
         /\ send_page(value)
         /\ nav_raised' = None
    ELSE /\ nav_raised' = "IndexOutOfRange"
         /\ UNCHANGED <<current_page, sent_page, disabled, label>>

\* the response a callback that went through set_page_and_send has issued
page_answer == IF nav_raised' = None THEN "page" ELSE "none"

\* NavigatorView.send(to): before_page_change runs before the first page is
\* sent, to a channel (a message is stored) or as the response to an
\* interaction (the interaction is stored as well, ephemeral or not), and
\* the navigator starts to listen
NavigatorSend ==
    /\ nav_status = "created"
    /\ send_page(current_page)
    /\ nav_raised' = None
    /\ nav_status' = "running"
    /\ message' = TRUE
    /\ \E to_interaction, eph \in BOOLEAN :
          /\ _inter' = to_interaction
          /\ ephemeral' = (to_interaction /\ eph)
    /\ ended("send", <<>>, "page")
    /\ UNCHANGED <<len_pages, current_page, jump_open, stop_editing>>
    /\ UNCHANGED <<navKids, select_disabled>>
    /\ UNCHANGED notNav

\* ItemHandler.start() called on the navigator by the application: it listens
\* without a message or an interaction of its own
NavigatorStart ==
    /\ nav_status = "created"
    /\ nav_status' = "running"
    /\ nav_raised' = None
    /\ ended("start", <<>>, "none")
    /\ UNCHANGED <<len_pages, current_page, jump_open, sent_page, disabled, label,
                   message, _inter, ephemeral, stop_editing>>
    /\ UNCHANGED <<navKids, select_disabled>>
    /\ UNCHANGED notNav

\* ItemHandler.stop() called on the navigator by the application
NavigatorStop ==
    /\ nav_status = "running"
    /\ nav_status' = "stopped"
    /\ nav_raised' = None
    /\ ended("app_stop", <<>>, "none")
    /\ UNCHANGED <<len_pages, current_page, jump_open, sent_page, disabled, label,
                   message, _inter, ephemeral, stop_editing>>
    /\ UNCHANGED <<navKids, select_disabled>>
    /\ UNCHANGED notNav

\* the navigator's listener times out: every item is disabled, the message is
\* rendered again, then stop()
NavigatorTimeout ==
    /\ nav_status = "running"
    /\ disabled' = [b \in Buttons |-> TRUE]
    /\ select_disabled' = HasSelect
    /\ nav_status' = "stopped"
    /\ nav_raised' = None
    /\ ended("timeout", <<>>, "none")
    /\ UNCHANGED <<len_pages, current_page, jump_open, sent_page, label,
                   message, _inter, ephemeral, stop_editing>>
    /\ UNCHANGED navKids
    /\ UNCHANGED notNav

\* NextButton.callback when it writes the cursor field itself
NextButton_callback_unchecked ==
    /\ nav_status = "running"
    /\ current_page' = current_page + 1
    /\ send_page(current_page + 1)
    /\ nav_raised' = None
    /\ ended("next", <<>>, "page")
    /\ UNCHANGED <<len_pages, jump_open, nav_status, message, _inter, ephemeral,
                   stop_editing>>
    /\ UNCHANGED <<navKids, select_disabled>>
    /\ UNCHANGED notNav

\* NextButton.callback: self.view.current_page += 1; send_page
NextButton_callback ==
    /\ nav_status = "running"
    /\ set_page_and_send(current_page + 1)
    /\ ended("next", <<>>, page_answer)
    /\ UNCHANGED <<len_pages, jump_open, nav_status, message, _inter, ephemeral,
                   stop_editing>>
    /\ UNCHANGED <<navKids, select_disabled>>
    /\ UNCHANGED notNav

\* PrevButton.callback: self.view.current_page -= 1; send_page
PrevButton_callback ==
    /\ nav_status = "running"
    /\ set_page_and_send(current_page - 1)
    /\ ended("prev", <<>>, page_answer)
    /\ UNCHANGED <<len_pages, jump_open, nav_status, message, _inter, ephemeral,
                   stop_editing>>
    /\ UNCHANGED <<navKids, select_disabled>>
    /\ UNCHANGED notNav

\* FirstButton.callback: self.view.current_page = 0; send_page
FirstButton_callback ==
    /\ nav_status = "running"
    /\ set_page_and_send(0)
    /\ ended("first", <<>>, page_answer)
    /\ UNCHANGED <<len_pages, jump_open, nav_status, message, _inter, ephemeral,
                   stop_editing>>
    /\ UNCHANGED <<navKids, select_disabled>>
    /\ UNCHANGED notNav

\* LastButton.callback when it assigns len(self.view.pages)
LastButton_callback_past_end ==
    /\ nav_status = "running"
    /\ set_page_and_send(len_pages)
    /\ ended("last", <<>>, page_answer)
    /\ UNCHANGED <<len_pages, jump_open, nav_status, message, _inter, ephemeral,
                   stop_editing>>
    /\ UNCHANGED <<navKids, select_disabled>>
    /\ UNCHANGED notNav

\* LastButton.callback: self.view.current_page = len(self.view.pages) - 1; send_page
LastButton_callback ==
    /\ nav_status = "running"
    /\ set_page_and_send(len_pages - 1)
    /\ ended("last", <<>>, page_answer)
    /\ UNCHANGED <<len_pages, jump_open, nav_status, message, _inter, ephemeral,
                   stop_editing>>
    /\ UNCHANGED <<navKids, select_disabled>>
    /\ UNCHANGED notNav

\* IndicatorButton.callback, lines 196-199: the jump modal is made and sent,
\* and the callback suspends in modal.wait()
IndicatorButton_open ==
    /\ nav_status = "running"
    /\ jump_open < MaxJumps
    /\ jump_open' = jump_open + 1
    /\ nav_raised' = None
    /\ ended("jump_open", <<>>, "modal")
    /\ UNCHANGED <<len_pages, current_page, sent_page, disabled, label, nav_status,
                   message, _inter, ephemeral, stop_editing>>
    /\ UNCHANGED <<navKids, select_disabled>>
    /\ UNCHANGED notNav

\* lines 201-211 when the typed number is taken as the index of the page
IndicatorButton_submitted_no_offset(text) ==
    /\ jump_open > 0
    /\ jump_open' = 0
    /\ LET parsed == int(text) IN
       IF parsed.ok
       THEN /\ set_page_and_send(parsed.value)
            /\ ended("jump", text, page_answer)
            /\ UNCHANGED _inter
       ELSE /\ nav_raised' = None
            /\ _inter' = TRUE
            /\ ended("jump", text, "defer")
            /\ UNCHANGED <<current_page, sent_page, disabled, label>>
    /\ UNCHANGED <<len_pages, nav_status, message, ephemeral, stop_editing>>
    /\ UNCHANGED <<navKids, select_disabled>>
    /\ UNCHANGED notNav

\* IndicatorButton.callback, lines 201-211, resumed after a submission of text:
\* modal.values holds the text, so the test of line 201 passes; a text int()
\* refuses stores the interaction of the submission in view._inter and is
\* answered with a defer (lines 206-208).  Every jump modal is sent under
\* the identifier custom_id reads for it (its title, the same for all), so
\* the submission resumes every suspended callback; they assign the same
\* page, which leaves the state one assignment leaves.  Nothing in these
\* lines looks at whether the navigator still runs.
IndicatorButton_submitted(text) ==
    /\ jump_open > 0
    /\ jump_open' = 0
    /\ LET parsed == int(text) IN
       IF parsed.ok
       THEN /\ set_page_and_send(parsed.value - 1)
            /\ ended("jump", text, page_answer)
            /\ UNCHANGED _inter
       ELSE /\ nav_raised' = None
            /\ _inter' = TRUE
            /\ ended("jump", text, "defer")
            /\ UNCHANGED <<current_page, sent_page, disabled, label>>
    /\ UNCHANGED <<len_pages, nav_status, message, ephemeral, stop_editing>>
    /\ UNCHANGED <<navKids, select_disabled>>
    /\ UNCHANGED notNav

\* IndicatorButton.callback, lines 201-202, resumed after the jump modal timed
\* out or was stopped: modal.values is None and the callback returns
IndicatorButton_abandoned ==
    /\ jump_open > 0
    /\ jump_open' = jump_open - 1
    /\ nav_raised' = None
    /\ ended("jump_none", <<>>, "none")
    /\ UNCHANGED <<len_pages, current_page, sent_page, disabled, label, nav_status,
                   message, _inter, ephemeral, stop_editing>>
    /\ UNCHANGED <<navKids, select_disabled>>
    /\ UNCHANGED notNav

\* StopButton.callback, lines 231-242, up to its suspension or its end: the
\* early return of line 232, else the loop of lines 234-236 over the children,
\* which asserts that each one is a NavButton before it disables it, so that
\* it ends with AssertionError at the first NavSelect when assert statements
\* are executed; after the loop the callback awaits the edit line 238 or line
\* 240 selects, or calls stop() at once when neither test holds
StopButton_callback ==
    /\ nav_status = "running"
    /\ ~stop_editing
    /\ IF ~message /\ ~_inter
       THEN /\ nav_raised' = None
            /\ ended("stop", <<>>, "none")
            /\ UNCHANGED <<disabled, select_disabled, stop_editing, nav_status>>
       ELSE IF debug /\ HasSelect
       THEN /\ disabled' = [b \in Buttons |-> disabled[b] \/ b \in disabled_before_assert]
            /\ nav_raised' = "AssertionError"
            /\ ended("stop_assert", <<>>, "none")
            /\ UNCHANGED <<select_disabled, stop_editing, nav_status>>
       ELSE /\ disabled' = [b \in Buttons |-> TRUE]
            /\ select_disabled' = HasSelect
            /\ nav_raised' = None
            /\ IF (_inter /\ ephemeral) \/ message
               THEN /\ stop_editing' = TRUE
                    /\ ended("stop_edit", <<>>, "none")
                    /\ UNCHANGED nav_status
               ELSE /\ nav_status' = "stopped"
                    /\ ended("stop", <<>>, "none")
                    /\ UNCHANGED stop_editing
    /\ UNCHANGED <<len_pages, current_page, jump_open, sent_page, label, message,
                   _inter, ephemeral>>
    /\ UNCHANGED navKids
    /\ UNCHANGED notNav

\* StopButton.callback resumed after the edit: line 242, self.view.stop()
StopButton_edited ==
    /\ stop_editing
    /\ stop_editing' = FALSE
    /\ nav_status' = "stopped"
    /\ nav_raised' = None
    /\ ended("stop", <<>>, "edit")
    /\ UNCHANGED <<len_pages, current_page, jump_open, sent_page, disabled, label,
                   message, _inter, ephemeral>>
    /\ UNCHANGED <<navKids, select_disabled>>
    /\ UNCHANGED notNav

\* StopButton.callback when the edit raises (the REST call failed): the
\* callback ends with the exception, line 242 is not reached
StopButton_edit_raised ==
    /\ stop_editing
    /\ stop_editing' = FALSE
    /\ nav_raised' = "HTTPError"
    /\ ended("stop_raised", <<>>, "none")
    /\ UNCHANGED <<len_pages, current_page, jump_open, sent_page, disabled, label,
                   nav_status, message, _inter, ephemeral>>
    /\ UNCHANGED <<navKids, select_disabled>>
    /\ UNCHANGED notNav

\* a navigator constructed with 1..MaxPages pages; the cursor starts at 0, the
\* buttons are enabled (the indicator as its constructor was told), and the
\* indicator shows its placeholder "0/0"
InitNav ==
    /\ len_pages \in 1..MaxPages
    /\ current_page = 0
    /\ jump_open = 0
    /\ sent_page = NoPage
    /\ \E ind \in BOOLEAN : disabled = [b \in Buttons |-> b = "indicator" /\ ind]
    /\ label = <<0, 0>>
    /\ nav_raised = None
    /\ nav_status = "created"
    /\ message = FALSE
    /\ _inter = FALSE
    /\ ephemeral = FALSE
    /\ stop_editing = FALSE
    /\ nav_last = [op |-> None, text |-> <<>>, answer |-> "none"]
    /\ nav_children \in ChildLists
    /\ select_disabled = FALSE
    /\ debug \in BOOLEAN

NextNav ==
    \/ NavigatorSend
    \/ NavigatorStart
    \/ NavigatorStop
    \/ NavigatorTimeout
    \/ NextButton_callback
    \/ PrevButton_callback
    \/ FirstButton_callback
    \/ LastButton_callback
    \/ IndicatorButton_open
    \/ \E text \in Texts : IndicatorButton_submitted(text)
    \/ IndicatorButton_abandoned
    \/ StopButton_callback
    \/ StopButton_edited
    \/ StopButton_edit_raised

(***************************************************************************)
(* Item (src/miru/abc/item.py) and the item list of a Modal.                *)
(*                                                                         *)
(* An Optional[int] is the empty sequence for None and <<n>> for n; an     *)
(* Optional[str] is None or the string.                                    *)
(***************************************************************************)
MaxRows == 5
ItemMaxLen == 100
MaxItems == 25

NoneInt == <<>>

\* the values the application assigns to Item.row
RowValues == {NoneInt} \cup {<<n>> : n \in -1..MaxRows}

\* the values the application assigns to Item.custom_id
ItemIds == {None, "", "a", LongStr}

\* the items the application passes to add_item: a TextInput is a ModalItem,
\* a Button is a ViewItem; attached says the item has a handler already
NewItems == [kind : {"TextInput", "Button"}, attached : BOOLEAN]

ModalItems == {"TextInput"}

\* the operation on the item or the item list that ended last, with its
\* argument and the exception it raised
did(op, row, cid, item, exc) ==
    item_last' = [op |-> op, row |-> row, cid |-> cid, item |-> item, exc |-> exc]

NoItem == [kind |-> None, attached |-> FALSE]

\* the row setter when it does not look at _rendered_row
Item_row_setter_unguarded(value) ==
    /\ IF value = NoneInt
       THEN /\ _row' = NoneInt
            /\ did("row", value, None, NoItem, None)
       ELSE IF MaxRows > value[1] /\ value[1] >= 0
       THEN /\ _row' = value
            /\ did("row", value, None, NoItem, None)
       ELSE /\ did("row", value, None, NoItem, "ValueError")
            /\ UNCHANGED _row
    /\ UNCHANGED <<_rendered_row, item_custom_id, children>>
    /\ UNCHANGED notItems

\* item.row = value (lines 70-80)
Item_row_setter(value) ==
    /\ IF _rendered_row # NoneInt
       THEN /\ did("row", value, None, NoItem, "RuntimeError")
            /\ UNCHANGED _row
       ELSE IF value = NoneInt
       THEN /\ _row' = NoneInt
            /\ did("row", value, None, NoItem, None)
       ELSE IF MaxRows > value[1] /\ value[1] >= 0
       THEN /\ _row' = value
            /\ did("row", value, None, NoItem, None)
       ELSE /\ did("row", value, None, NoItem, "ValueError")
            /\ UNCHANGED _row
    /\ UNCHANGED <<_rendered_row, item_custom_id, children>>
    /\ UNCHANGED notItems

\* bool(value) of an Optional[str]
truthy(value) == value # None /\ value # ""

\* the custom_id setter when it does not look at the length
Item_custom_id_setter_unchecked(value) ==
    /\ item_custom_id' = value
    /\ did("custom_id", NoneInt, value, NoItem, None)
    /\ UNCHANGED <<_row, _rendered_row, children>>
    /\ UNCHANGED notItems

\* item.custom_id = value (lines 97-104); value is an Optional[str] in every
\* call modelled, so the isinstance test of line 99 passes
Item_custom_id_setter(value) ==
    /\ IF truthy(value) /\ Len(value) > ItemMaxLen
       THEN /\ did("custom_id", NoneInt, value, NoItem, "ValueError")
            /\ UNCHANGED item_custom_id
       ELSE /\ item_custom_id' = value
            /\ did("custom_id", NoneInt, value, NoItem, None)
    /\ UNCHANGED <<_row, _rendered_row, children>>
    /\ UNCHANGED notItems

\* the handler builds its components: the item gets the row it ends up in,
\* its row hint if it has one and a row the packing finds otherwise; the
\* rendered row is assigned once
Render ==
    /\ _rendered_row = NoneInt
    /\ \E r \in 0..(MaxRows - 1) :
          _rendered_row' = IF _row # NoneInt THEN _row ELSE <<r>>
    /\ did("render", NoneInt, None, NoItem, None)
    /\ UNCHANGED <<_row, item_custom_id, children>>
    /\ UNCHANGED notItems

\* ItemHandler.add_item(item): refused with ValueError when 25 items are
\* held and with RuntimeError when the item has a handler already, else the
\* item is appended
ItemHandler_add_item(item) ==
    IF Len(children) >= MaxItems
    THEN /\ did("add_item", NoneInt, None, item, "ValueError")
         /\ UNCHANGED children
    ELSE IF item.attached
    THEN /\ did("add_item", NoneInt, None, item, "RuntimeError")
         /\ UNCHANGED children
    ELSE /\ children' = Append(children, item.kind)
         /\ did("add_item", NoneInt, None, item, None)

\* Modal.add_item when it hands every item to ItemHandler.add_item
Modal_add_item_untyped(item) ==
    /\ ItemHandler_add_item(item)
    /\ UNCHANGED <<_row, _rendered_row, item_custom_id>>
    /\ UNCHANGED notItems

\* Modal.add_item(item) (lines 148-151)
Modal_add_item(item) ==
    /\ IF item.kind \notin ModalItems
       THEN /\ did("add_item", NoneInt, None, item, "TypeError")
            /\ UNCHANGED children
       ELSE ItemHandler_add_item(item)
    /\ UNCHANGED <<_row, _rendered_row, item_custom_id>>
    /\ UNCHANGED notItems

\* Item.__init__ (lines 56-61) and a modal without items
InitItems ==
    /\ _row = NoneInt
    /\ _rendered_row = NoneInt
    /\ item_custom_id = None
    /\ children = <<>>
    /\ item_last = [op |-> None, row |-> NoneInt, cid |-> None, item |-> NoItem,
                    exc |-> None]

\* one item, and one modal with its identifiers and its item list
NextItems ==
    \/ \E value \in RowValues : Item_row_setter(value)
    \/ \E value \in ItemIds : Item_custom_id_setter(value)
    \/ Render
    \/ \E item \in NewItems : Modal_add_item(item)
    \/ \E cid \in {"a", None, LongStr}, gen \in GenIds : Construct(1, "Jump", cid, gen)
    \/ \E v \in {"b", LongStr} : SetCustomId(1, v)

NextIds ==
    \/ \E m \in Modals, t \in Titles \cup {LongStr}, cid \in CustomIds \cup {None, LongStr},
          gen \in GenIds : Construct(m, t, cid, gen)
    \/ \E m \in Modals, v \in Titles \cup {LongStr} : SetTitle(m, v)
    \/ \E m \in Modals, v \in CustomIds \cup {LongStr} : SetCustomId(m, v)
    \/ \E m \in Modals : SendModal(m)
    \/ \E m \in Modals : SubmitDialog(m)
    \/ \E cid \in CustomIds \cup Titles : ComponentPress(cid)

\* the lifecycle variables while the identifiers are explored: one modal,
\* just constructed
IdleLife ==
    /\ InitLife
    /\ autodefer = TRUE
    /\ _timeout = DefaultTimeout

vars == <<idVars, lifeVars, navVars, itemVars>>

\* the navigator while the modals are explored: one page, nothing sent
IdleNav ==
    /\ InitNav
    /\ len_pages = 1
    /\ ~disabled["indicator"]
    /\ nav_children = DefaultButtons
    /\ debug

InitIdsSpec == InitIds /\ IdleLife /\ IdleNav /\ InitItems

SpecIds == InitIdsSpec /\ [][NextIds]_vars

InitNavSpec == InitIds /\ IdleLife /\ InitNav /\ InitItems

SpecNav == InitNavSpec /\ [][NextNav]_vars

InitItemsSpec == InitIds /\ IdleLife /\ IdleNav /\ InitItems

SpecItems == InitItemsSpec /\ [][NextItems]_vars

Next ==
    \/ Start
    \/ Send
    \/ AppStop
    \/ \E w \in Waiters : wait(w)
    \/ \E w \in Waiters : WaitReturn(w)
    \/ Submit
    \/ \E i \in Listeners : Timeout(i)
    \/ \E i \in Listeners : ListenerResume(i)
    \/ \E h \in Listeners : HandleStart(h)
    \/ \E h \in Listeners : CallbackRespond(h)
    \/ \E h \in Listeners : CallbackStop(h)
    \/ \E h \in Listeners : CallbackReturn(h)
    \/ \E h \in Listeners : CallbackRaise(h)
    \/ \E h \in Listeners : DeferReturn(h)
    \/ \E h \in Listeners : DeferRaise(h)

Init == InitIds /\ InitLife /\ IdleNav /\ InitItems

Spec == Init /\ [][Next]_vars

(***************************************************************************)
(* Claims about the identifiers                                            *)
(***************************************************************************)

\* C1: while two modals listen and their custom identifiers differ, a listener
\* takes an event only if it is a modal interaction whose custom identifier
\* equals the modal's own custom identifier, and it never takes an event that
\* answers the dialog of the other modal (equal titles included).
C1_IdentifierExact ==
    \A c \in consumed :
        (c.others # {} /\ c.own \notin c.others) =>
            /\ c.kind = "modal"
            /\ c.cid = c.own
            /\ c.origin = c.by

\* C2: reading custom_id gives the stored custom identifier (constructor
\* argument, generated value or last successful assignment), whatever the
\* title is, and reading title gives the stored title.
C2_CustomIdReadsOwn ==
    \A m \in Modals :
        exists[m] => (custom_id(m) = _custom_id[m] /\ title(m) = _title[m])

(***************************************************************************)
(* Claims about the lifecycle of a modal                                   *)
(***************************************************************************)

\* a listener returned from wait_for with a submission and ran to its end
Received == \E i \in Listeners : lst[i] \in {"done", "rejected"}

\* no task of the modal is left that could run
Quiescent ==
    /\ \A i \in Listeners : lst[i] \notin Active
    /\ \A h \in Listeners : hnd[h] \notin Busy

\* C3: once a submission was received and every task of the modal has run to
\* its end, the modal is STOPPED and no caller of wait() is still blocked,
\* whatever modal_check returned and whether callback returned or raised.
C3_StopsAfterSubmission ==
    (Received /\ Quiescent) =>
        (_stopped /\ \A w \in Waiters : waiter[w] # "waiting")

\* C4: a modal never has more than one active listener task.
C4_OneListener ==
    Cardinality({i \in Listeners : lst[i] \in Active}) <= 1

\* C5: however often stop() is called, _stopped goes from clear to set exactly
\* once and stays set, all blocked callers of wait() are released by that one
\* transition, and a wait() issued afterwards does not block.
C5_StopIdempotent ==
    /\ released <= 1
    /\ (released = 1) <=> _stopped
    /\ (stop_calls >= 1) => _stopped
    /\ _stopped => \A w \in Waiters : waiter[w] # "waiting"

\* C5 witness: stop() was called more than once and all waiters were released
\* by the one transition
C5_Witness ==
    /\ stop_calls >= 2
    /\ released = 1
    /\ \A w \in Waiters : waiter[w] = "woken"

\* C6 (state part): on_error was called exactly once with the context of the
\* submission for a handling task whose callback or defer raised, never for
\* another one and never without a context; no handling task ends with the
\* exception unhandled.
C6_OnErrorOnce ==
    /\ on_error_calls[0] = 0
    /\ \A h \in Listeners :
        /\ hnd[h] # "crashed"
        /\ on_error_calls[h] = IF hnd[h] = "failed" THEN 1 ELSE 0

\* C6 (step part): the step that handles the fault neither stops the modal
\* nor touches a listener.
C6_FaultDoesNotStop ==
    \A h \in Listeners :
        (hnd[h] # "failed" /\ hnd'[h] = "failed") =>
            (_stopped' = _stopped /\ lst' = lst /\ waiter' = waiter)

\* C6: an exception of callback or of the automatic defer goes to on_error
\* exactly once with its context, propagates nowhere and does not by itself
\* stop the modal.
C6_FaultIsolated == [](C6_OnErrorOnce) /\ [][C6_FaultDoesNotStop]_vars

\* C6 witness: a callback raised, on_error saw it, the modal still runs
C6_Witness ==
    \E h \in Listeners :
        /\ hnd[h] = "failed"
        /\ on_error_calls[h] = 1
        /\ _values = h
        /\ _ctx = 0
        /\ ~_stopped

\* C7: when a listener timed out, timeout handling ran exactly once, the
\* modal is STOPPED, no listener is armed and callback was never invoked.
C7_TimeoutOnce ==
    (\E i \in Listeners : lst[i] = "timedout") =>
        /\ Cardinality({i \in Listeners : lst[i] = "timedout"}) = 1
        /\ _stopped
        /\ \A i \in Listeners : lst[i] \notin Active
        /\ \A h \in Listeners : hnd[h] = "none"

\* C8: a submission that modal_check rejected does not reach callback, and
\* while the modal is not stopped a listener goes on awaiting submissions.
C8_ContinuesListening ==
    /\ \A i \in Listeners : lst[i] = "rejected" => hnd[i] = "none"
    /\ ((\E i \in Listeners : lst[i] = "rejected") /\ ~_stopped) =>
           \E j \in Listeners : lst[j] \in Active

\* C9: on the context of a handled submission at most one initial response is
\* issued; when the handling task has reached its own stop() it has issued
\* exactly one defer if autodefer is set and callback issued no response, and
\* none otherwise.
C9_OneInitialResponse ==
    \A h \in Listeners :
        /\ responded[h] + deferred[h] <= 1
        /\ deferred[h] = 1 => (autodefer /\ responded[h] = 0)
        /\ hnd[h] = "done" =>
              /\ _stopped
              /\ deferred[h] = IF autodefer /\ responded[h] = 0 THEN 1 ELSE 0

\* C9 witness: callback returned without a response, the defer was issued
\* and the handling task stopped the modal
C9_Witness ==
    \E h \in Listeners :
        /\ hnd[h] = "done"
        /\ autodefer
        /\ responded[h] = 0
        /\ deferred[h] = 1

(***************************************************************************)
(* Claims about the navigator                                              *)
(***************************************************************************)

\* C10: the cursor is an index into the pages in every reachable state,
\* whatever navigation callbacks ran and whatever was typed in the jump modal.
C10_PageInRange == 0 <= current_page /\ current_page < len_pages

\* C10 witness: on the last page a request beyond the pages was refused
C10_Witness ==
    /\ len_pages = MaxPages
    /\ current_page = len_pages - 1
    /\ nav_raised = "IndexOutOfRange"

\* C11: the cursor changes only in a step of a navigation item callback, and
\* in no step taken while the navigator is STOPPED (a jump modal opened
\* before the stop and submitted after it included).
C11_OnlyWhileRunning ==
    [][/\ current_page' # current_page =>
              nav_last'.op \in {"next", "prev", "first", "last", "jump"}
       /\ nav_status = "stopped" => current_page' = current_page]_vars

\* C12 (one step): what a Next, Prev, First or Last callback that starts with
\* the cursor at current_page leaves
C12_Step ==
    LET p == current_page
        N == len_pages
        op == nav_last'.op
        moved(q) == current_page' = q /\ sent_page' = q /\ nav_raised' = None
        refused ==
            /\ current_page' = p
            /\ sent_page' = sent_page
            /\ nav_raised' = "IndexOutOfRange"
    IN  /\ op = "next" => IF p + 1 < N THEN moved(p + 1) ELSE refused
        /\ op = "prev" => IF p > 0 THEN moved(p - 1) ELSE refused
        /\ op = "first" => moved(0)
        /\ op = "last" => moved(N - 1)

\* C12: Next moves the cursor from p to p+1 and sends that page when p+1 is a
\* page, and is refused with IndexOutOfRange (cursor unchanged, not clamped)
\* on the last page; Prev likewise with p-1 and the first page; First sets 0
\* and Last sets the last page.
C12_ButtonsMoveOrRefuse == [][C12_Step]_vars

\* C12 witness: three pages, the cursor reached page 2 and a further Next was
\* refused
C12_Witness ==
    /\ len_pages = 3
    /\ current_page = 2
    /\ sent_page = 2
    /\ nav_last.op = "next"
    /\ nav_raised = "IndexOutOfRange"

\* texts that are no integer
NotIntegers == {<<>>, <<"a", "b", "c">>, <<"2", "x">>}

\* C13 (one step): what an Indicator callback resumed from modal.wait() leaves
C13_Step ==
    LET op == nav_last'.op
        text == nav_last'.text
        answer == nav_last'.answer
    IN  /\ op = "jump" =>
              /\ \A n \in 1..len_pages :
                    text = Typed(n) =>
                        /\ current_page' = n - 1
                        /\ sent_page' = n - 1
                        /\ answer = "page"
              /\ text \in NotIntegers =>
                    /\ current_page' = current_page
                    /\ sent_page' = sent_page
                    /\ answer = "defer"
        /\ op = "jump_none" =>
              /\ current_page' = current_page
              /\ sent_page' = sent_page
              /\ answer = "none"

\* C13: in the jump modal the decimal text of a page number n in 1..len(pages)
\* sets the cursor to n-1 and sends that page; text that is no integer leaves
\* the cursor and is answered with a defer; a modal that ended without a
\* submission leaves the cursor and sends nothing.
C13_JumpModal == [][C13_Step]_vars

\* C13 witness: "2" was submitted and the second page was sent
C13_Witness ==
    /\ nav_last = [op |-> "jump", text |-> <<"2">>, answer |-> "page"]
    /\ current_page = 1
    /\ sent_page = 1

\* C14: when a Stop callback has completed, every button is disabled and the
\* navigator is STOPPED, whatever message and interaction the navigator held.
C14_StopDisablesAndStops ==
    nav_last.op = "stop" =>
        /\ \A b \in Buttons : disabled[b]
        /\ nav_status = "stopped"

(***************************************************************************)
(* Claims about items                                                      *)
(***************************************************************************)

\* the step is one of the item or of the item list, by the operation op
ItemStep(op) == item_last'.op = op /\ UNCHANGED idVars

\* C15 (state part): the row hint is None or one of the rows 0..4
C15_RowValid == _row = NoneInt \/ _row[1] \in 0..4

\* C15 (step part): an assignment to row of a rendered item raises
\* RuntimeError whatever the value, one of an integer outside [0,5) raises
\* ValueError, a failed assignment leaves row, and row never changes once
\* the item was rendered
C15_Step ==
    /\ _rendered_row # NoneInt => _row' = _row
    /\ ItemStep("row") =>
          LET value == item_last'.row
              exc == item_last'.exc
          IN  /\ _rendered_row # NoneInt => exc = "RuntimeError"
              /\ (/\ _rendered_row = NoneInt
                  /\ value # NoneInt
                  /\ (value[1] < 0 \/ value[1] >= 5)) => exc = "ValueError"
              /\ exc # None => _row' = _row
              /\ exc = None => _row' = value

\* C15: Item.row refuses an assignment after rendering (RuntimeError) and a
\* value outside [0,5) (ValueError) and is left unchanged by both; row is
\* always None or in 0..4 and never changes after the item was rendered.
C15_RowSetter == [](C15_RowValid) /\ [][C15_Step]_vars

\* C15 witness: the item was rendered in row 1 and an assignment of the valid
\* row 2 was refused
C15_Witness ==
    /\ _rendered_row = <<1>>
    /\ _row = <<1>>
    /\ item_last.op = "row"
    /\ item_last.row = <<2>>
    /\ item_last.exc = "RuntimeError"

\* C16 (state part): the item and every constructed modal hold an identifier
\* of at most 100 characters, stored and as read
C16_IdsShort ==
    /\ item_custom_id # None => Len(item_custom_id) <= 100
    /\ \A m \in Modals :
          exists[m] => (Len(_custom_id[m]) <= 100 /\ Len(custom_id(m)) <= 100)

\* C16 (step part): an assignment of a longer identifier to the item raises
\* ValueError, and an operation that raised leaves the stored identifiers
C16_Step ==
    /\ ItemStep("custom_id") =>
          /\ Len(item_last'.cid) > 100 => item_last'.exc = "ValueError"
          /\ item_last'.exc # None => item_custom_id' = item_custom_id
    /\ raised' = "ValueError" => (_custom_id' = _custom_id /\ exists' = exists)

\* C16: no Item and no Modal holds a custom identifier longer than 100
\* characters; the Item setter, the Modal constructor and the Modal setter
\* raise ValueError on a longer one and leave the stored identifier.
C16_CustomIdLength == [](C16_IdsShort) /\ [][C16_Step]_vars

\* C16 witness: an identifier of 101 characters was refused by the modal and
\* then by the item, which both keep the one they had
C16_Witness ==
    /\ exists[1]
    /\ raised = "ValueError"
    /\ _custom_id[1] = "b"
    /\ item_custom_id = "a"
    /\ item_last.op = "custom_id"
    /\ item_last.cid = LongStr
    /\ item_last.exc = "ValueError"

\* C17 (state part): at most 25 items, all of them ModalItems
C17_ItemsValid ==
    /\ Len(children) <= 25
    /\ \A k \in 1..Len(children) : children[k] \in ModalItems

\* C17 (step part): an item that is no ModalItem raises TypeError, a 26th
\* item raises ValueError, a refused add leaves the list and a successful
\* one makes it one longer
C17_Step ==
    ItemStep("add_item") =>
        LET item == item_last'.item
            exc == item_last'.exc
        IN  /\ item.kind \notin ModalItems => exc = "TypeError"
            /\ (item.kind \in ModalItems /\ Len(children) = 25) => exc = "ValueError"
            /\ exc # None => children' = children
            /\ exc = None => children' = Append(children, item.kind)

\* C17: Modal.add_item refuses an item that is no ModalItem (TypeError) and a
\* 26th item (ValueError) and leaves the list then; k successful adds leave k
\* items, so a modal holds at most 25 items, all ModalItems.
C17_AddItem == [](C17_ItemsValid) /\ [][C17_Step]_vars

\* C17 witness: the modal holds 25 items and a 26th ModalItem was refused
C17_Witness ==
    /\ Len(children) = 25
    /\ item_last.op = "add_item"
    /\ item_last.item = [kind |-> "TextInput", attached |-> FALSE]
    /\ item_last.exc = "ValueError"

(***************************************************************************)
(* Further claims about the lifecycle of a modal                           *)
(***************************************************************************)

\* start() was called at most once on the modal
StartedOnce == Cardinality({i \in Listeners : lst[i] # "unborn"}) <= 1

\* C18: no stop() ends a handling task: a task that was made stays able to
\* take its next step whether or not the modal is stopped, and when it has
\* run to its end the response context is recorded and the automatic defer
\* was issued if autodefer is set and callback made no response.
C18_CallbackSurvivesStop ==
    \A h \in Listeners :
        /\ hnd[h] \in {"none", "created", "callback", "defer", "done", "failed"}
        /\ hnd[h] = "created" => ENABLED HandleStart(h)
        /\ hnd[h] = "callback" => ENABLED CallbackReturn(h)
        /\ hnd[h] = "defer" => ENABLED DeferReturn(h)
        /\ hnd[h] = "done" =>
              /\ _ctx # 0
              /\ (autodefer /\ responded[h] = 0) => deferred[h] = 1

\* C18 witness: the listener had handed the submission to the handling task
\* when the modal was stopped; the task went on, recorded the context and
\* is awaiting the automatic defer
C18_Witness ==
    /\ StartedOnce
    /\ lst[1] = "done"
    /\ hnd[1] = "defer"
    /\ _stopped
    /\ _ctx = 1

\* C19: for a modal started once, callback is invoked at most once, and once
\* its listener has taken a submission no listener is left that could take
\* a later one, so values is never set a second time.
C19_SingleResponse ==
    StartedOnce =>
        /\ callback_calls <= 1
        /\ (\E i \in Listeners : lst[i] \in {"event", "done", "rejected"}) =>
               \A j \in Listeners : lst[j] # "waiting"
        /\ _values \in {0, 1}
        /\ (_values = 0) <=> (callback_calls = 0)

\* C19 witness: the one listener took a submission, callback ran once and the
\* handling task has ended
C19_Witness ==
    /\ StartedOnce
    /\ lst[1] = "done"
    /\ hnd[1] = "done"
    /\ callback_calls = 1
    /\ _values = 1

\* C20: a submission modal_check rejected reaches neither values nor the
\* response context, has no handling task, no on_error call and no response
\* or defer; values is non-None exactly when the handling task of a
\* submission that passed has started, also when callback raised.
C20_RejectedLeavesData ==
    /\ \A i \in Listeners :
          lst[i] = "rejected" =>
              /\ hnd[i] = "none"
              /\ _values # i
              /\ _ctx # i
              /\ on_error_calls[i] = 0
              /\ responded[i] = 0 /\ deferred[i] = 0 /\ ~_issued_response[i]
    /\ _values # 0 =>
          (lst[_values] = "done" /\ hnd[_values] \in {"callback", "defer", "done", "failed"})
    /\ (\E h \in Listeners : hnd[h] \in {"callback", "defer", "done", "failed"}) =>
          _values # 0

\* C20 witness: the one submission was rejected and the modal's data is as
\* constructed
C20_Witness ==
    /\ StartedOnce
    /\ lst[1] = "rejected"
    /\ _values = 0
    /\ _ctx = 0
    /\ callback_calls = 0

\* C21: whenever the modal is STOPPED and values is not None,
\* get_response_context() returns the context of the submission instead of
\* raising, however the handling task, the stop() calls and the callers
\* resumed from wait() interleave.
C21_ContextAfterStop ==
    (_stopped /\ _values # 0) =>
        (~get_response_context.raises /\ get_response_context.context = _values)

\* C22: in every state a callback left by sending a page (before_page_change
\* has run on every item for the cursor), Next and Last are disabled exactly
\* when current_page = len(pages) - 1 and Prev and First exactly when
\* current_page = 0; so an enabled Next or Prev leads to a page inside the
\* pages, and with a single page all four are disabled.
C22_ButtonsMatchCursor ==
    nav_last.answer = "page" =>
        /\ sent_page = current_page
        /\ disabled["next"] <=> (current_page = len_pages - 1)
        /\ disabled["last"] <=> (current_page = len_pages - 1)
        /\ disabled["prev"] <=> (current_page = 0)
        /\ disabled["first"] <=> (current_page = 0)
        /\ ~disabled["next"] => (current_page + 1 \in 0..(len_pages - 1))
        /\ ~disabled["prev"] => (current_page - 1 \in 0..(len_pages - 1))
        /\ (len_pages = 1) =>
              \A b \in {"first", "prev", "next", "last"} : disabled[b]

\* the Next button has sent the last one of three pages: Next and Last are
\* disabled, Prev and First are not
C22_Witness ==
    /\ nav_last.op = "next"
    /\ nav_last.answer = "page"
    /\ len_pages = 3
    /\ current_page = 2
    /\ disabled["next"] /\ disabled["last"]
    /\ ~disabled["prev"] /\ ~disabled["first"]

\* C23: the assertion of StopButton.callback holds on every navigator whose
\* children are NavItems, a NavSelect among them included: no callback ends
\* with AssertionError.
C23_AssertionHolds == nav_raised # "AssertionError"

\* C24: every submission of the jump modal is answered, by the page that
\* send_page sent or by a defer, whatever was typed: a page number, text that
\* is no number, nothing, or an integer outside 1..len(pages).
C24_JumpAnswered == nav_last.op = "jump" => nav_last.answer \in {"page", "defer"}

====
